---- MODULE Spec2Model ----
(***************************************************************************)
(* Model of the stat-simulation engine of the Quarantine game.             *)
(*                                                                         *)
(* The repository ships two implementations of the Zustand game store:     *)
(*   "frontend": src/frontend/src/utils/gameStore.ts, lines 240-795        *)
(*               (interval-driven loop, localStorage + backend sync);      *)
(*   "gametest": src/unnamed/part_002 (the mock store of the game-test     *)
(*               application, driven through advanceTime).                 *)
(* One application runs one store; the variable `store` records which.     *)
(***************************************************************************)
EXTENDS Integers, Sequences, FiniteSets, TLC

VARIABLES
    store,              \* which implementation this session runs
    stats,              \* GameState.stats
    gameTime,           \* GameState.gameTime
    currentActivityId,  \* GameState.currentActivityId (frontend only)
    dailySchedule,      \* GameState.dailySchedule, slot h |-> activityId or "null"
    isGameRunning,      \* GameState.isGameRunning
    isLoading,          \* GameState.isLoading
    intervalId,         \* GameState.intervalId, 0 models null
    isGameOver,         \* GameState.isGameOver
    gameOverReason,     \* GameState.gameOverReason, "null" models null
    timers,             \* interval timers armed in the browser (setInterval ids)
    ls,                 \* localStorage: the four keys the store writes
    db,                 \* the profiles row of the backend
    backendStamp,       \* how data.updated_at relates to the localStorage timestamp
    network,            \* "reliable", or "lossy": backend updates may fail
    storage,            \* localStorage: "ok", "full" (setItem throws) or
                        \* "denied" (getItem and setItem throw)
    loggedIn,           \* supabase.auth.session() has a user
    warnings,           \* console.warn calls of the last operation
    thrown,             \* an exception escaped the last operation
    halted,             \* the player has paused or reset and not started since
    editorSchedule,     \* TimelineSidebar: the schedule state of the editor,
                        \* None once it holds a value that is not an array
    isLoadingSchedule,  \* TimelineSidebar: the editor has not loaded yet
    pendingSaves,       \* TimelineSidebar: schedules whose debounced save is armed
    orderStatus,        \* FoodOrderModal: the status line, "null" models null
    shopRequests,       \* ShopPage: POST requests sent to /routes/shop
    toast,              \* ShopPage: the last toast shown, "null" before any
    currentEvent,       \* EventManager: the event shown, "null" models null
    optionsApplied,     \* options applied since the event shown was shown
    closeTimers,        \* EventPopup: 1.5 s timers armed by chosen options
    audioSettings,      \* GameState.audioSettings, volumes in percent
    pendingInits,       \* initializeGame calls suspended at their await
    direct,             \* direct stat changes made so far
    assigned,           \* schedule assignments made so far
    failures            \* backend updates that have failed

vars == <<store, stats, gameTime, currentActivityId, dailySchedule,
          isGameRunning, isLoading, intervalId, isGameOver, gameOverReason,
          timers, ls, db, backendStamp, network, storage, loggedIn, warnings,
          thrown,
          halted, editorSchedule, isLoadingSchedule, pendingSaves,
          orderStatus, shopRequests, toast, currentEvent, optionsApplied,
          closeTimers, audioSettings,
          pendingInits,
          direct, assigned, failures>>

----------------------------------------------------------------------------
(* Bounds of the exploration *)

\* ticks are explored while gameTime.day < MaxDay
MaxDay == 2
\* direct stat changes (events, food, room items) explored
MaxDirect == 1
\* schedule assignments explored
MaxAssign == 1
\* failed backend updates explored
MaxFailures == 1
\* initializeGame calls that may be suspended at their await at once
MaxPendingInits == 1
\* requests to the shop routes explored
MaxShopRequests == 2
MaxOptions == 2

----------------------------------------------------------------------------
(* Values *)

Hours == 0..23

None == <<>>
Some(v) == <<v>>
IsSome(o) == Len(o) = 1
Val(o) == o[1]

Min(a, b) == IF a < b THEN a ELSE b
Max(a, b) == IF a > b THEN a ELSE b

StatNames == {"hunger", "stress", "tone", "health", "money"}

initialStats ==
    [hunger |-> 70, stress |-> 20, tone |-> 80, health |-> 90, money |-> 50]

initialGameTime == [day |-> 1, hour |-> 0]

\* Array(24).fill(null).map(() => ({ activityId: 'idle' }))
initialSchedule == [h \in Hours |-> "idle"]

\* Array(24).fill({ activityId: null })
initialScheduleMock == [h \in Hours |-> "null"]

\* a persisted slot that is not an object with an activityId field
MalformedSlot == "<not a slot>"

\* slot?.activityId, with "null" for null and undefined
SlotActivity(slot) == IF slot = MalformedSlot THEN "null" ELSE slot

\* clamp with the upper bound forgotten
clampNoMax(value, min, max) == Max(min, value)

\* clamp = Math.max(min, Math.min(value, max))
clamp(value, min, max) == Max(min, Min(value, max))

\* the activity effect table of the frontend store (water_flower is commented out)
activityEffects ==
    [work        |-> [hunger |-> -5, stress |-> 5, tone |-> -5, money |-> 10],
     sleep       |-> [stress |-> -8, tone |-> 10, health |-> 2],
     eat_fast    |-> [hunger |-> 50, stress |-> -2, tone |-> -2, health |-> -10, money |-> -5],
     eat_healthy |-> [hunger |-> 30, stress |-> -1, health |-> 5, money |-> -15],
     tv          |-> [hunger |-> -1, stress |-> -10, tone |-> -5],
     games       |-> [hunger |-> -1, stress |-> -15, tone |-> -10, health |-> -5],
     read        |-> [hunger |-> -1, stress |-> -8, tone |-> -5, health |-> 2],
     exercise    |-> [hunger |-> -2, stress |-> -5, tone |-> 5, health |-> 3],
     meditate    |-> [stress |-> -10, tone |-> 2, health |-> 1],
     idle        |-> [hunger |-> -2, stress |-> 1, tone |-> -1]]

\* the activity effect table of the game-test store
activityEffectsMock ==
    [work         |-> [hunger |-> -5, stress |-> 5, tone |-> -5, money |-> 10],
     sleep        |-> [stress |-> -8, tone |-> 10, health |-> 2],
     eat_fast     |-> [hunger |-> 50, stress |-> -2, tone |-> -2, health |-> -10, money |-> -5],
     eat_healthy  |-> [hunger |-> 30, stress |-> -1, health |-> 5, money |-> -15],
     tv           |-> [hunger |-> -1, stress |-> -10, tone |-> -5],
     games        |-> [hunger |-> -1, stress |-> -15, tone |-> -10, health |-> -5],
     read         |-> [hunger |-> -1, stress |-> -8, tone |-> -5, health |-> 2],
     water_flower |-> [stress |-> -5, health |-> 1],
     exercise     |-> [hunger |-> -2, stress |-> -5, tone |-> 5, health |-> 3],
     meditate     |-> [stress |-> -10, tone |-> 2, health |-> 1],
     idle         |-> [hunger |-> -2, stress |-> 1, tone |-> -1]]

\* (effects.hunger || 0): an absent key of a Partial<Stats> counts as 0
Eff(effects, k) == IF k \in DOMAIN effects THEN effects[k] ELSE 0

\* the audio settings a store starts with
initialAudioSettings == [muted |-> FALSE, bgmVolume |-> 40, sfxVolume |-> 60]
initialAudioSettingsMock == [bgmVolume |-> 50, sfxVolume |-> 50, isMuted |-> FALSE]

BurnoutReason == "Burnout! Stress reached 100."
HealthReason == "Your health reached zero. Game over!"
StarvedReason == "You starved to death. Game over!"

----------------------------------------------------------------------------
(* The world an operation runs against: the store's state together with    *)
(* the browser's timers, localStorage and the backend row.  An operation   *)
(* is a function from worlds to worlds, so that a handler's nested calls   *)
(* (applyActivityEffects -> pauseGameLoop -> saveGameState) compose.       *)

World ==
    [stats |-> stats, gameTime |-> gameTime,
     currentActivityId |-> currentActivityId, dailySchedule |-> dailySchedule,
     isGameRunning |-> isGameRunning, isLoading |-> isLoading,
     intervalId |-> intervalId, isGameOver |-> isGameOver,
     gameOverReason |-> gameOverReason, timers |-> timers,
     ls |-> ls, db |-> db, backendStamp |-> backendStamp, warnings |-> 0,
     thrown |-> FALSE]

Commit(w) ==
    /\ stats' = w.stats
    /\ gameTime' = w.gameTime
    /\ currentActivityId' = w.currentActivityId
    /\ dailySchedule' = w.dailySchedule
    /\ isGameRunning' = w.isGameRunning
    /\ isLoading' = w.isLoading
    /\ intervalId' = w.intervalId
    /\ isGameOver' = w.isGameOver
    /\ gameOverReason' = w.gameOverReason
    /\ timers' = w.timers
    /\ ls' = w.ls
    /\ db' = w.db
    /\ backendStamp' = w.backendStamp
    /\ warnings' = w.warnings
    /\ thrown' = w.thrown

\* Both timestamps are taken with new Date() by the client.  The handlers
\* that write both take the localStorage timestamp first and updated_at a
\* few statements later, so updated_at is then equal to it or later
\* ("paired"); a localStorage timestamp taken after the last backend write
\* leaves updated_at behind ("older").
\* Outcome of one backend update: TRUE when it succeeds, FALSE when it fails
\* (the .then callback only logs the error).
Outcomes == IF network = "lossy" THEN {TRUE, FALSE} ELSE {TRUE}

\* localStorage.getItem returns, localStorage.setItem returns
CanRead == storage # "denied"
CanWrite == storage = "ok"

emptyStorage ==
    [stats |-> None, gameTime |-> None, schedule |-> None, timestamp |-> FALSE]

\* supabase.from('profiles').update(fields).eq('id', user.id): only the
\* listed columns change; a missing row is not an error and stays missing.
backendUpdate(w, fields, ok) ==
    IF loggedIn /\ ok /\ IsSome(w.db)
    THEN [w EXCEPT !.db = Some([c \in DOMAIN Val(w.db) |->
                                   IF c \in DOMAIN fields THEN fields[c]
                                   ELSE Val(w.db)[c]]),
                   !.backendStamp = "paired"]
    ELSE w

----------------------------------------------------------------------------
(* The frontend store: src/frontend/src/utils/gameStore.ts *)

saveGameState(w, o) ==
    LET w1 == IF CanWrite
              THEN [w EXCEPT !.ls = [stats |-> Some(w.stats),
                                     gameTime |-> Some(w.gameTime),
                                     schedule |-> Some(w.dailySchedule),
                                     timestamp |-> TRUE],
                             !.backendStamp = "older"]
              ELSE w
    IN backendUpdate(w1, [game_stats |-> Some(w.stats),
                          game_time |-> Some(w.gameTime),
                          daily_schedule |-> Some(w.dailySchedule)], o)

NewTimerId(w) == CHOOSE i \in 1..(Cardinality(w.timers) + 1) : i \notin w.timers

\* an interval is armed whether or not one is already running
startGameLoopUnguarded(w) ==
    LET id == NewTimerId(w)
    IN [w EXCEPT !.isGameRunning = TRUE,
                 !.timers = w.timers \cup {id},
                 !.intervalId = id]

\* the running flag and an id are set but no interval is armed
startGameLoopWithoutInterval(w) ==
    IF w.intervalId # 0 \/ w.isGameRunning
    THEN w
    ELSE [w EXCEPT !.isGameRunning = TRUE,
                   !.intervalId = NewTimerId(w)]

startGameLoop(w) ==
    IF w.intervalId # 0 \/ w.isGameRunning
    THEN w
    ELSE LET id == NewTimerId(w)
         IN [w EXCEPT !.isGameRunning = TRUE,
                      !.timers = w.timers \cup {id},
                      !.intervalId = id]

\* the interval is cleared but the running flag is left set
pauseGameLoopKeepingRunning(w, o) ==
    IF w.intervalId # 0
    THEN saveGameState([w EXCEPT !.timers = w.timers \ {w.intervalId},
                                 !.intervalId = 0], o)
    ELSE w

pauseGameLoop(w, o) ==
    IF w.intervalId # 0
    THEN saveGameState([w EXCEPT !.timers = w.timers \ {w.intervalId},
                                 !.intervalId = 0,
                                 !.isGameRunning = FALSE], o)
    ELSE w

\* the new stats computed by applyActivityEffects
activityStats(currentStats, effects) ==
    [hunger |-> clamp(currentStats.hunger + Eff(effects, "hunger"), 0, 100),
     stress |-> clamp(currentStats.stress + Eff(effects, "stress"), 0, 100),
     tone   |-> clamp(currentStats.tone + Eff(effects, "tone"), 0, 100),
     health |-> clamp(currentStats.health + Eff(effects, "health"), 0, 100),
     money  |-> currentStats.money + Eff(effects, "money")]

\* the game-over tail without the call of pauseGameLoop
gameOverBurnoutWithoutPause(w, newStats, o) ==
    IF CanWrite
    THEN [w EXCEPT !.ls.stats = Some(newStats),
                   !.stats = newStats,
                   !.isGameOver = TRUE,
                   !.gameOverReason = BurnoutReason]
    ELSE [w EXCEPT !.thrown = TRUE]

\* the game-over tail shared by applyActivityEffects and applyStatChanges:
\* pauseGameLoop runs inside the updater, then the stats key is written
\* (the nested set of pauseGameLoop is kept when setItem throws, the
\* updater's own result is not)
gameOverBurnout(w, newStats, o) ==
    LET w1 == pauseGameLoop(w, o)
    IN IF CanWrite
       THEN [w1 EXCEPT !.ls.stats = Some(newStats),
                       !.stats = newStats,
                       !.isGameOver = TRUE,
                       !.gameOverReason = BurnoutReason]
       ELSE [w1 EXCEPT !.thrown = TRUE]

\* an id without effects is given the effects of idle
applyActivityEffectsUnknownAsIdle(w, activityId, o) ==
    LET effects == IF activityId \in DOMAIN activityEffects
                   THEN activityEffects[activityId] ELSE activityEffects["idle"]
        newStats == activityStats(w.stats, effects)
    IN IF newStats.stress >= 100
       THEN gameOverBurnout(w, newStats, o)
       ELSE [w EXCEPT !.stats = newStats]

applyActivityEffects(w, activityId, o) ==
    IF activityId \notin DOMAIN activityEffects
    THEN [w EXCEPT !.warnings = @ + 1]
    ELSE LET newStats == activityStats(w.stats, activityEffects[activityId])
         IN IF newStats.stress >= 100
            THEN gameOverBurnout(w, newStats, o)
            ELSE [w EXCEPT !.stats = newStats]

\* the hour wraps but the day is not carried
nextGameTimeNoCarry(t) ==
    [day |-> t.day, hour |-> (t.hour + 1) % 24]

\* (nextDay, nextHour) of the tick
nextGameTime(t) ==
    IF t.hour + 1 >= 24
    THEN [day |-> t.day + 1, hour |-> 0]
    ELSE [day |-> t.day, hour |-> t.hour + 1]

\* the slot of the hour being left is read instead of the hour being entered
nextActivityIdOfCurrentHour(schedule, hour) ==
    LET current == (hour + 23) % 24
    IN IF current \notin DOMAIN schedule
          \/ SlotActivity(schedule[current]) \in {"null", ""}
       THEN "idle"
       ELSE schedule[current]

\* dailySchedule[nextHour]?.activityId ?? 'idle', then || 'idle'
nextActivityId(schedule, hour) ==
    IF hour \notin DOMAIN schedule \/ SlotActivity(schedule[hour]) \in {"null", ""}
    THEN "idle"
    ELSE schedule[hour]

\* the setInterval callback of startGameLoop
tick(w, o1, o2) ==
    LET next == nextGameTime(w.gameTime)
        act == nextActivityId(w.dailySchedule, next.hour)
        w1 == applyActivityEffects(w, act, o1)
    IN IF w1.thrown
       THEN w1
       ELSE saveGameState([w1 EXCEPT !.gameTime = next,
                                     !.currentActivityId = act], o2)

\* the new stats computed by applyStatChanges
changedStats(currentStats, changes) ==
    [k \in DOMAIN currentStats |->
        IF k \in DOMAIN changes
        THEN IF k = "money"
             THEN currentStats[k] + changes[k]
             ELSE clamp(currentStats[k] + changes[k], 0, 100)
        ELSE currentStats[k]]

applyStatChanges(w, changes, o) ==
    LET newStats == changedStats(w.stats, changes)
    IN IF newStats.stress >= 100
       THEN gameOverBurnout(w, newStats, o)
       ELSE IF CanWrite
            THEN [w EXCEPT !.ls.stats = Some(newStats), !.stats = newStats]
            ELSE [w EXCEPT !.thrown = TRUE]

\* the clock is set back when the schedule is replaced
setScheduleResettingClock(w, newSchedule, o) ==
    LET w1 == IF CanWrite
              THEN [w EXCEPT !.dailySchedule = newSchedule,
                             !.gameTime = initialGameTime,
                             !.ls.schedule = Some(newSchedule),
                             !.ls.timestamp = TRUE,
                             !.backendStamp = "older"]
              ELSE [w EXCEPT !.dailySchedule = newSchedule,
                             !.gameTime = initialGameTime]
    IN backendUpdate(w1, [daily_schedule |-> Some(newSchedule)], o)

setSchedule(w, newSchedule, o) ==
    LET w1 == IF CanWrite
              THEN [w EXCEPT !.dailySchedule = newSchedule,
                             !.ls.schedule = Some(newSchedule),
                             !.ls.timestamp = TRUE,
                             !.backendStamp = "older"]
              ELSE [w EXCEPT !.dailySchedule = newSchedule]
    IN backendUpdate(w1, [daily_schedule |-> Some(newSchedule)], o)

\* the terminal flag is left as it was
resetGameKeepingGameOver(w, o) ==
    LET w1 == [w EXCEPT !.timers = w.timers \ {w.intervalId},
                        !.stats = initialStats,
                        !.gameTime = initialGameTime,
                        !.currentActivityId = "idle",
                        !.dailySchedule = initialSchedule,
                        !.isGameRunning = FALSE,
                        !.isLoading = FALSE,
                        !.intervalId = 0]
        w2 == [w1 EXCEPT !.ls = [stats |-> Some(initialStats),
                                 gameTime |-> Some(initialGameTime),
                                 schedule |-> Some(initialSchedule),
                                 timestamp |-> TRUE],
                         !.backendStamp = "older"]
    IN IF CanWrite
       THEN backendUpdate(w2, [game_stats |-> Some(initialStats),
                               game_time |-> Some(initialGameTime),
                               daily_schedule |-> Some(initialSchedule)], o)
       ELSE [w1 EXCEPT !.thrown = TRUE]

resetGame(w, o) ==
    LET w1 == [w EXCEPT !.timers = w.timers \ {w.intervalId},
                        !.stats = initialStats,
                        !.gameTime = initialGameTime,
                        !.currentActivityId = "idle",
                        !.dailySchedule = initialSchedule,
                        !.isGameRunning = FALSE,
                        !.isLoading = FALSE,
                        !.intervalId = 0,
                        !.isGameOver = FALSE,
                        !.gameOverReason = "null"]
        w2 == [w1 EXCEPT !.ls = [stats |-> Some(initialStats),
                                 gameTime |-> Some(initialGameTime),
                                 schedule |-> Some(initialSchedule),
                                 timestamp |-> TRUE],
                         !.backendStamp = "older"]
    IN IF CanWrite
       THEN backendUpdate(w2, [game_stats |-> Some(initialStats),
                               game_time |-> Some(initialGameTime),
                               daily_schedule |-> Some(initialSchedule)], o)
       ELSE [w1 EXCEPT !.thrown = TRUE]

\* the stored value if it is an array of 24 objects with an activityId
loadScheduleFromLocalStorage(saved) ==
    IF IsSome(saved)
       /\ DOMAIN Val(saved) = Hours
       /\ \A h \in Hours : Val(saved)[h] # MalformedSlot
    THEN saved
    ELSE None

\* the three loads from localStorage that open both paths of initializeGame
loadLocal(w) ==
    IF CanRead
    THEN [w EXCEPT !.dailySchedule = IF IsSome(loadScheduleFromLocalStorage(w.ls.schedule))
                                     THEN Val(w.ls.schedule) ELSE @,
                   !.stats = IF IsSome(w.ls.stats) THEN Val(w.ls.stats) ELSE @,
                   !.gameTime = IF IsSome(w.ls.gameTime) THEN Val(w.ls.gameTime) ELSE @]
    ELSE w

\* initializeGame without a userId: synchronous
initializeGameNoUser(w) ==
    startGameLoop([loadLocal(w) EXCEPT !.isLoading = FALSE])

\* initializeGame(userId) up to its await
initializeGameBegin(w) ==
    [loadLocal(w) EXCEPT !.isLoading = TRUE]

\* the part of initializeGame that uses the row the query returned
\* later: new Date(data.updated_at) > new Date(localTimestamp)
\* (getItem or the first setItem that throws ends the try block: the set
\* before that setItem is kept, the later ones are not reached)
applyBackendData(w, later) ==
    LET data == Val(w.db)
        backendHasNewerData == IF w.ls.timestamp THEN later ELSE TRUE
        useSchedule == IsSome(data.daily_schedule)
                       /\ DOMAIN Val(data.daily_schedule) = Hours
                       /\ backendHasNewerData
        useStats == IsSome(data.game_stats) /\ backendHasNewerData
        useTime == IsSome(data.game_time) /\ backendHasNewerData
        w1 == IF useSchedule
              THEN [w EXCEPT !.dailySchedule = Val(data.daily_schedule),
                             !.ls.schedule = data.daily_schedule]
              ELSE w
        w2 == IF useStats
              THEN [w1 EXCEPT !.stats = Val(data.game_stats),
                              !.ls.stats = data.game_stats]
              ELSE w1
        w3 == IF useTime
              THEN [w2 EXCEPT !.gameTime = Val(data.game_time),
                              !.ls.gameTime = data.game_time]
              ELSE w2
    IN IF ~CanRead THEN w
       ELSE IF ~CanWrite
       THEN IF useSchedule
            THEN [w EXCEPT !.dailySchedule = Val(data.daily_schedule)]
            ELSE IF useStats
            THEN [w EXCEPT !.stats = Val(data.game_stats)]
            ELSE IF useTime
            THEN [w EXCEPT !.gameTime = Val(data.game_time)]
            ELSE w
       ELSE IF backendHasNewerData
       THEN [w3 EXCEPT !.ls.timestamp = TRUE, !.backendStamp = "older"]
       ELSE w3

\* initializeGame(userId) from the await on, without its finally block: a
\* failed load leaves the store loading and the loop stopped
initializeGameEndWithoutFinally(w, queryOk, later) ==
    IF queryOk /\ IsSome(w.db) /\ CanWrite
    THEN startGameLoop([applyBackendData(w, later) EXCEPT !.isLoading = FALSE])
    ELSE w

\* initializeGame(userId) from the await on: queryOk is FALSE when the
\* query fails; a missing row makes .single() report an error as well
initializeGameEnd(w, queryOk, later) ==
    LET w1 == IF queryOk /\ IsSome(w.db) THEN applyBackendData(w, later) ELSE w
    IN startGameLoop([w1 EXCEPT !.isLoading = FALSE])

----------------------------------------------------------------------------
(* The game-test store: src/unnamed/part_002 *)

saveGameStateMock(w) ==
    IF CanWrite
    THEN [w EXCEPT !.ls.stats = Some(w.stats),
                   !.ls.gameTime = Some(w.gameTime),
                   !.ls.schedule = Some(w.dailySchedule)]
    ELSE w

\* the new stats computed by applyActivityEffects of the game-test store
activityStatsMock(currentStats, effects) ==
    [hunger |-> clamp(currentStats.hunger + Eff(effects, "hunger"), 0, 100),
     stress |-> clamp(currentStats.stress + Eff(effects, "stress"), 0, 100),
     tone   |-> clamp(currentStats.tone + Eff(effects, "tone"), 0, 100),
     health |-> clamp(currentStats.health + Eff(effects, "health"), 0, 100),
     money  |-> Max(0, currentStats.money + Eff(effects, "money"))]

\* the game-over check of the game-test store: <<isGameOver, gameOverReason>>
gameOverCheckMock(newStats) ==
    IF newStats.health <= 0 THEN <<TRUE, HealthReason>>
    ELSE IF newStats.hunger <= 0 THEN <<TRUE, StarvedReason>>
    ELSE <<FALSE, "">>

applyActivityEffectsMock(w, activityId) ==
    IF activityId \notin DOMAIN activityEffectsMock
    THEN [w EXCEPT !.warnings = @ + 1]
    ELSE LET newStats == activityStatsMock(w.stats, activityEffectsMock[activityId])
             over == gameOverCheckMock(newStats)
         IN saveGameStateMock([w EXCEPT !.stats = newStats,
                                        !.isGameOver = over[1],
                                        !.gameOverReason = over[2]])

\* the new stats computed by applyStatChanges of the game-test store
changedStatsMock(currentStats, changes) ==
    [k \in DOMAIN currentStats |->
        IF k \in DOMAIN changes
        THEN IF k = "money"
             THEN Max(0, currentStats[k] + changes[k])
             ELSE clamp(currentStats[k] + changes[k], 0, 100)
        ELSE currentStats[k]]

applyStatChangesMock(w, changes) ==
    LET newStats == changedStatsMock(w.stats, changes)
        over == gameOverCheckMock(newStats)
    IN saveGameStateMock([w EXCEPT !.stats = newStats,
                                   !.isGameOver = over[1],
                                   !.gameOverReason = over[2]])

advanceTime(w) ==
    LET w1 == [w EXCEPT !.gameTime = nextGameTime(w.gameTime)]
        currentHour == w1.gameTime.hour
        scheduledActivity == IF currentHour \in DOMAIN w1.dailySchedule
                             THEN SlotActivity(w1.dailySchedule[currentHour])
                             ELSE "null"
        w2 == IF scheduledActivity \notin {"null", ""}
              THEN applyActivityEffectsMock(w1, scheduledActivity)
              ELSE applyActivityEffectsMock(w1, "idle")
    IN saveGameStateMock(w2)

setScheduleMock(w, newSchedule) ==
    IF CanWrite
    THEN [w EXCEPT !.dailySchedule = newSchedule,
                   !.ls.schedule = Some(newSchedule)]
    ELSE [w EXCEPT !.dailySchedule = newSchedule]

resetGameMock(w) ==
    LET w1 == [w EXCEPT !.stats = initialStats,
                        !.gameTime = initialGameTime,
                        !.dailySchedule = initialScheduleMock,
                        !.isGameRunning = FALSE,
                        !.isGameOver = FALSE,
                        !.gameOverReason = ""]
    IN IF CanWrite
       THEN [w1 EXCEPT !.ls.stats = Some(initialStats),
                       !.ls.gameTime = Some(initialGameTime),
                       !.ls.schedule = Some(initialScheduleMock)]
       ELSE w1

\* initializeGame() of the game-test store, no userId
initializeGameMockNoUser(w) ==
    [w EXCEPT !.stats = initialStats,
              !.gameTime = initialGameTime,
              !.dailySchedule = initialScheduleMock,
              !.isLoading = FALSE,
              !.isGameRunning = FALSE,
              !.isGameOver = FALSE,
              !.gameOverReason = ""]

\* initializeGame(userId) of the game-test store: it has no await
initializeGameMock(w) ==
    [w EXCEPT !.stats = IF CanRead /\ IsSome(w.ls.stats)
                        THEN Val(w.ls.stats) ELSE initialStats,
              !.gameTime = IF CanRead /\ IsSome(w.ls.gameTime)
                           THEN Val(w.ls.gameTime) ELSE initialGameTime,
              !.dailySchedule = IF CanRead /\ IsSome(w.ls.schedule)
                                THEN Val(w.ls.schedule) ELSE initialScheduleMock,
              !.isLoading = FALSE]

----------------------------------------------------------------------------
(* Inputs *)

\* schedules the player assigns: a working day (Scenario A: work at hour 1),
\* and a day that opens with four healthy meals
workSchedule == [h \in Hours |-> "work"]
mealSchedule == [h \in Hours |-> IF h \in 1..4 THEN "eat_healthy" ELSE "idle"]

Schedules == {workSchedule, mealSchedule}

\* effects of event options (EventManager.tsx GAME_EVENTS)
orderFoodEffects == [hunger |-> 50, money |-> -15, stress |-> -10]
callManagementEffects == [stress |-> 10, tone |-> -5]

DirectChanges == {orderFoodEffects, callManagementEffects}

\* activities of the room items of GameRoom.tsx that the player clicks
RoomActivities == {"water_flower"}

----------------------------------------------------------------------------
(* Initial state: the store as created in a fresh browser; the frontend is   *)
(* played by a signed-in user whose profiles row exists (GamePage renders   *)
(* the game only with a session), the game-test store has no backend.       *)

freshRow == [game_stats |-> None, game_time |-> None, daily_schedule |-> None]

\* the store created in a browser whose localStorage holds the schedule
\* `saved` and whose backend holds `row`, with the stats s
\* (loadStatsFromLocalStorage() || initialStats); from then on localStorage
\* behaves as `mode` says
InitIn(n, s, saved, row, mode) ==
    /\ store \in {"frontend", "gametest"}
    /\ storage = mode
    /\ thrown = FALSE
    /\ stats = s
    /\ gameTime = initialGameTime
    /\ currentActivityId = "idle"
    /\ dailySchedule =
          IF store = "frontend"
          THEN IF IsSome(loadScheduleFromLocalStorage(saved))
               THEN Val(saved) ELSE initialSchedule
          ELSE IF IsSome(saved) THEN Val(saved) ELSE initialScheduleMock
    /\ isGameRunning = FALSE
    /\ isLoading = (store = "frontend")
    /\ intervalId = 0
    /\ isGameOver = FALSE
    /\ gameOverReason = IF store = "frontend" THEN "null" ELSE ""
    /\ timers = {}
    /\ ls = [emptyStorage EXCEPT !.schedule = saved, !.timestamp = IsSome(saved)]
    /\ loggedIn = (store = "frontend")
    /\ db = IF store = "frontend" THEN row ELSE None
    /\ backendStamp = IF store = "frontend" /\ row # None /\ row # Some(freshRow)
                      THEN "paired" ELSE "older"
    /\ network = n
    /\ warnings = 0
    /\ halted = FALSE
    /\ editorSchedule = Some(initialSchedule)
    /\ isLoadingSchedule = TRUE
    /\ pendingSaves = {}
    /\ orderStatus = "null"
    /\ shopRequests = 0
    /\ toast = "null"
    /\ currentEvent = "null"
    /\ optionsApplied = 0
    /\ closeTimers = 0
    /\ audioSettings = IF store = "frontend" THEN initialAudioSettings
                       ELSE initialAudioSettingsMock
    /\ pendingInits = 0
    /\ direct = 0
    /\ assigned = 0
    /\ failures = 0

\* a browser whose localStorage works
InitFrom(n, s, saved, row) == InitIn(n, s, saved, row, "ok")

\* a fresh browser, a profiles row without game data
InitWith(n, s) == InitFrom(n, s, None, Some(freshRow))

InitStore(n) == InitWith(n, initialStats)

Init == InitStore("reliable")

----------------------------------------------------------------------------
(* Actions of the frontend store *)

\* the state of the components that order, buy and resolve events
pageVars == <<orderStatus, shopRequests, toast, currentEvent, optionsApplied,
              closeTimers>>

\* what no action of the store touches: the environment, the schedule editor
\* and the other components
Frame == UNCHANGED <<store, loggedIn, network, storage, pageVars, audioSettings,
                     editorSchedule,
                     isLoadingSchedule, pendingSaves>>

FailCount(ok) == IF ok THEN 0 ELSE 1

\* a backend update may be drawn to fail while the failure budget lasts
Fails(n) ==
    /\ failures + n <= MaxFailures
    /\ failures' = failures + n

StartGameLoop ==
    /\ store = "frontend"
    /\ Commit(startGameLoop(World))
    /\ UNCHANGED <<pendingInits, direct, assigned, failures>> /\ Frame
    /\ halted' = FALSE

PauseGameLoop ==
    /\ store = "frontend"
    /\ \E o \in Outcomes :
          /\ Commit(pauseGameLoop(World, o))
          /\ Fails(FailCount(o))
    /\ UNCHANGED <<pendingInits, direct, assigned>> /\ Frame
    /\ halted' = (halted \/ intervalId # 0)

\* one firing of an armed interval timer
Tick ==
    /\ store = "frontend"
    /\ timers # {}
    /\ gameTime.day < MaxDay
    /\ \E o1, o2 \in Outcomes :
          /\ Commit(tick(World, o1, o2))
          /\ Fails(FailCount(o1) + FailCount(o2))
    /\ UNCHANGED <<pendingInits, direct, assigned>> /\ Frame
    /\ UNCHANGED halted

\* an event option is chosen (EventPopup.handleOptionSelect)
ApplyStatChanges ==
    /\ store = "frontend"
    /\ direct < MaxDirect
    /\ \E changes \in DirectChanges, o \in Outcomes :
          /\ Commit(applyStatChanges(World, changes, o))
          /\ Fails(FailCount(o))
    /\ direct' = direct + 1
    /\ UNCHANGED <<pendingInits, assigned>> /\ Frame
    /\ UNCHANGED halted

SetSchedule ==
    /\ store = "frontend"
    /\ assigned < MaxAssign
    /\ \E s \in Schedules, o \in Outcomes :
          /\ Commit(setSchedule(World, s, o))
          /\ Fails(FailCount(o))
    /\ assigned' = assigned + 1
    /\ UNCHANGED <<pendingInits, direct>> /\ Frame
    /\ UNCHANGED halted

ResetGame ==
    /\ store = "frontend"
    /\ \E o \in Outcomes :
          /\ Commit(resetGame(World, o))
          /\ Fails(FailCount(o))
    /\ UNCHANGED <<pendingInits, direct, assigned>> /\ Frame
    /\ halted' = TRUE

InitializeGameNoUser ==
    /\ store = "frontend"
    /\ Commit(initializeGameNoUser(World))
    /\ UNCHANGED <<pendingInits, direct, assigned, failures>> /\ Frame
    /\ halted' = FALSE

InitializeGameBegin ==
    /\ store = "frontend"
    /\ pendingInits < MaxPendingInits
    /\ Commit(initializeGameBegin(World))
    /\ pendingInits' = pendingInits + 1
    /\ UNCHANGED <<direct, assigned, failures>> /\ Frame
    /\ halted' = FALSE

InitializeGameEnd ==
    /\ store = "frontend"
    /\ pendingInits > 0
    /\ \E queryOk \in BOOLEAN, later \in BOOLEAN :
          /\ later => backendStamp = "paired"
          /\ Commit(initializeGameEnd(World, queryOk, later))
    /\ pendingInits' = pendingInits - 1
    /\ UNCHANGED <<direct, assigned, failures>> /\ Frame
    /\ UNCHANGED halted

----------------------------------------------------------------------------
(* Actions of the game-test store *)

StartGame ==
    /\ store = "gametest"
    /\ Commit([World EXCEPT !.isGameRunning = TRUE])
    /\ UNCHANGED <<pendingInits, direct, assigned, failures>> /\ Frame
    /\ halted' = FALSE

PauseGame ==
    /\ store = "gametest"
    /\ Commit([World EXCEPT !.isGameRunning = FALSE])
    /\ UNCHANGED <<pendingInits, direct, assigned, failures>> /\ Frame
    /\ halted' = TRUE

AdvanceTime ==
    /\ store = "gametest"
    /\ gameTime.day < MaxDay
    /\ Commit(advanceTime(World))
    /\ UNCHANGED <<pendingInits, direct, assigned, failures>> /\ Frame
    /\ UNCHANGED halted

ApplyStatChangesMock ==
    /\ store = "gametest"
    /\ direct < MaxDirect
    /\ \E changes \in DirectChanges : Commit(applyStatChangesMock(World, changes))
    /\ direct' = direct + 1
    /\ UNCHANGED <<pendingInits, assigned, failures>> /\ Frame
    /\ UNCHANGED halted

\* a room item is clicked (GameRoom.handleItemClick)
ItemClick ==
    /\ store = "gametest"
    /\ direct < MaxDirect
    /\ \E a \in RoomActivities : Commit(applyActivityEffectsMock(World, a))
    /\ direct' = direct + 1
    /\ UNCHANGED <<pendingInits, assigned, failures>> /\ Frame
    /\ UNCHANGED halted

SetScheduleMock ==
    /\ store = "gametest"
    /\ assigned < MaxAssign
    /\ \E s \in Schedules : Commit(setScheduleMock(World, s))
    /\ assigned' = assigned + 1
    /\ UNCHANGED <<pendingInits, direct, failures>> /\ Frame
    /\ UNCHANGED halted

ResetGameMock ==
    /\ store = "gametest"
    /\ Commit(resetGameMock(World))
    /\ UNCHANGED <<pendingInits, direct, assigned, failures>> /\ Frame
    /\ halted' = TRUE

InitializeGameMockNoUser ==
    /\ store = "gametest"
    /\ Commit(initializeGameMockNoUser(World))
    /\ UNCHANGED <<pendingInits, direct, assigned, failures>> /\ Frame
    /\ halted' = FALSE

InitializeGameMock ==
    /\ store = "gametest"
    /\ Commit(initializeGameMock(World))
    /\ UNCHANGED <<pendingInits, direct, assigned, failures>> /\ Frame
    /\ halted' = FALSE

----------------------------------------------------------------------------

Next ==
    \/ StartGameLoop
    \/ PauseGameLoop
    \/ Tick
    \/ ApplyStatChanges
    \/ SetSchedule
    \/ ResetGame
    \/ InitializeGameNoUser
    \/ InitializeGameBegin
    \/ InitializeGameEnd
    \/ StartGame
    \/ PauseGame
    \/ AdvanceTime
    \/ ApplyStatChangesMock
    \/ ItemClick
    \/ SetScheduleMock
    \/ ResetGameMock
    \/ InitializeGameMockNoUser
    \/ InitializeGameMock

Spec == Init /\ [][Next]_vars

\* the same program on a network that may drop backend requests
InitLossy == InitStore("lossy")

SpecLossy == InitLossy /\ [][Next]_vars

----------------------------------------------------------------------------
(* Persistence that fails: localStorage is full (setItem throws            *)
(* QuotaExceededError) or denied (getItem and setItem throw SecurityError), *)
(* backend requests may be dropped, and the user may have no profiles row.  *)

StorageFailures == {"full", "denied"}

\* a profiles row that holds a saved game
savedRow ==
    [game_stats |-> Some([initialStats EXCEPT !.money = 10]),
     game_time |-> Some([day |-> 1, hour |-> 5]),
     daily_schedule |-> None]

FailingRows == {None, Some(freshRow), Some(savedRow)}

InitFailing ==
    \E mode \in StorageFailures, row \in FailingRows :
       InitIn("lossy", initialStats, None, row, mode)

SpecFailing == InitFailing /\ [][Next]_vars

\* localStorage as a session may find it: working, full or denied
StorageModes == {"ok"} \cup StorageFailures

\* the schedule found in localStorage when the session opens
LoadedSchedules == {None, Some(workSchedule)}

\* the session is opened on any storage and any row, then played
InitLoad ==
    \E mode \in StorageModes, saved \in LoadedSchedules, row \in FailingRows :
       InitIn("reliable", initialStats, saved, row, mode)

----------------------------------------------------------------------------
(* applyActivityEffects as a function of the stats: the store is created   *)
(* with stats restored from localStorage (loadStatsFromLocalStorage), and  *)
(* a caller hands it one activity id.                                      *)

\* the ids of the canonical table of section 4.2
ActivityIds ==
    {"work", "sleep", "eat_fast", "eat_healthy", "tv", "games", "read",
     "water_flower", "exercise", "meditate", "idle"}

\* stat values near both ends of the range and in the middle
HungerSamples == {3, 70, 98}
StressSamples == {4, 20, 97}
ToneSamples == {3, 80, 99}
HealthSamples == {4, 90, 99}
MoneySamples == {0, 10, 50}

InitEffects ==
    \E h \in HungerSamples, s \in StressSamples, t \in ToneSamples,
       l \in HealthSamples, m \in MoneySamples :
       InitWith("reliable", [hunger |-> h, stress |-> s, tone |-> t,
                             health |-> l, money |-> m])

\* useGameStore.getState().applyActivityEffects(activityId)
ApplyActivity(activityId) ==
    /\ direct < MaxDirect
    /\ IF store = "frontend"
       THEN Commit(applyActivityEffects(World, activityId, TRUE))
       ELSE Commit(applyActivityEffectsMock(World, activityId))
    /\ direct' = direct + 1
    /\ UNCHANGED <<pendingInits, assigned, failures>> /\ Frame
    /\ UNCHANGED halted

NextEffects == \E activityId \in ActivityIds : ApplyActivity(activityId)

SpecEffects == InitEffects /\ [][NextEffects]_vars

----------------------------------------------------------------------------
(* The store created over persisted data it did not write in this session: *)
(* localStorage and the profiles row may hold a schedule left by another   *)
(* version of the application or damaged by the storage.                   *)

\* an id that no effect table knows, at hours 1 and 2
unknownSchedule == [h \in Hours |-> IF h \in 1..2 THEN "karaoke" ELSE "idle"]

\* an array of 23 slots
shortSchedule == [h \in 0..22 |-> "work"]

\* 24 entries, the one of hour 1 not a slot object
malformedSchedule == [h \in Hours |-> IF h = 1 THEN MalformedSlot ELSE "work"]

StoredSchedules ==
    {None, Some(unknownSchedule), Some(shortSchedule), Some(malformedSchedule)}

\* None: the user has no profiles row
StoredRows ==
    {None}
    \cup {Some([freshRow EXCEPT !.daily_schedule = s]) : s \in StoredSchedules}

InitStored ==
    \E saved \in StoredSchedules, row \in StoredRows :
       InitFrom("reliable", initialStats, saved, row)

\* the session is opened and played without editing the stored schedule
NextStored ==
    \/ StartGameLoop
    \/ PauseGameLoop
    \/ Tick
    \/ ResetGame
    \/ InitializeGameNoUser
    \/ InitializeGameBegin
    \/ InitializeGameEnd
    \/ StartGame
    \/ PauseGame
    \/ AdvanceTime
    \/ ResetGameMock
    \/ InitializeGameMockNoUser
    \/ InitializeGameMock

SpecStored == InitStored /\ [][NextStored]_vars

\* the same session on storage that may fail
SpecLoad == InitLoad /\ [][NextStored]_vars

----------------------------------------------------------------------------
(* The schedule editor of the frontend:                                    *)
(* src/frontend/src/components/TimelineSidebar.tsx.  It keeps its own      *)
(* schedule in React state and shares the localStorage key 'userSchedule'  *)
(* and the profiles row with the store.                                     *)

\* saveToLocalStorage(scheduleData) of the editor
saveToLocalStorage(w, scheduleData) ==
    IF CanWrite
    THEN [w EXCEPT !.ls.schedule = Some(scheduleData),
                   !.ls.timestamp = TRUE,
                   !.backendStamp = "older"]
    ELSE w

\* saveToBackend(scheduleData) of the editor
saveToBackend(w, scheduleData, ok) ==
    backendUpdate(w, [daily_schedule |-> Some(scheduleData)], ok)

\* the world after loadSchedule; the query selects daily_schedule only, so
\* data.updated_at is undefined and a valid backend schedule always wins
loadScheduleWorld(w, localSchedule, queryOk, ok) ==
    IF ~queryOk \/ ~IsSome(w.db)
    THEN w
    ELSE LET data == Val(w.db)
         IN IF IsSome(data.daily_schedule)
            THEN IF IsSome(loadScheduleFromLocalStorage(data.daily_schedule))
                 THEN saveToLocalStorage(w, Val(data.daily_schedule))
                 ELSE [w EXCEPT !.warnings = @ + 1]
            ELSE IF IsSome(localSchedule)
                 THEN saveToBackend(w, Val(localSchedule), ok)
                 ELSE saveToLocalStorage(w, initialSchedule)

\* the schedule state of the editor after loadSchedule
loadScheduleState(w, current, localSchedule, queryOk) ==
    LET shown == IF IsSome(localSchedule) THEN localSchedule ELSE current
    IN IF ~queryOk \/ ~IsSome(w.db)
       THEN shown
       ELSE LET data == Val(w.db)
            IN IF IsSome(data.daily_schedule)
               THEN IF IsSome(loadScheduleFromLocalStorage(data.daily_schedule))
                    THEN data.daily_schedule
                    ELSE shown
               ELSE IF IsSome(localSchedule)
                    THEN shown
                    ELSE Some(initialSchedule)

\* the slots an activity is dropped on, and the activities dragged
DropHours == {1, 5}
DraggedActivities == {"work", "sleep"}

EditorFrame ==
    UNCHANGED <<store, loggedIn, network, storage, halted, pendingInits, direct,
                assigned, pageVars, audioSettings>>

\* the mount effect of the editor for a signed-in user, taken when its query
\* completes
LoadSchedule ==
    /\ store = "frontend"
    /\ isLoadingSchedule
    /\ \E queryOk \in BOOLEAN, o \in Outcomes :
          LET localSchedule == IF CanRead
                               THEN loadScheduleFromLocalStorage(ls.schedule)
                               ELSE None
          IN /\ Commit(loadScheduleWorld(World, localSchedule, queryOk, o))
             /\ editorSchedule' =
                   loadScheduleState(World, editorSchedule, localSchedule, queryOk)
             /\ Fails(FailCount(o))
    /\ isLoadingSchedule' = FALSE
    /\ UNCHANGED pendingSaves
    /\ EditorFrame

\* handleDragEnd: the activity is dropped on the slot of `hour`; the updater
\* saves newSchedule, arms the debounced save and returns its cleanup
\* function, which becomes the state
HandleDragEnd(hour, activityId) ==
    /\ store = "frontend"
    /\ ~isLoadingSchedule
    /\ IsSome(editorSchedule)
    /\ LET currentSchedule == Val(editorSchedule)
           newSchedule == IF hour >= 0 /\ hour < 24
                          THEN [currentSchedule EXCEPT ![hour] = activityId]
                          ELSE currentSchedule
       IN /\ Commit(saveToLocalStorage(World, newSchedule))
          /\ pendingSaves' = pendingSaves \cup {newSchedule}
    /\ editorSchedule' = None
    /\ UNCHANGED <<isLoadingSchedule, failures>>
    /\ EditorFrame

\* the 2 second timer of a drop fires: saveToBackend(newSchedule)
SaveToBackend ==
    /\ store = "frontend"
    /\ \E s \in pendingSaves, o \in Outcomes :
          /\ Commit(saveToBackend(World, s, o))
          /\ pendingSaves' = pendingSaves \ {s}
          /\ Fails(FailCount(o))
    /\ UNCHANGED <<editorSchedule, isLoadingSchedule>>
    /\ EditorFrame

InitEditor == InitStore("reliable") /\ store = "frontend"

\* the game page: the store's loop and initialization, and the editor
NextEditor ==
    \/ StartGameLoop
    \/ PauseGameLoop
    \/ Tick
    \/ ResetGame
    \/ InitializeGameBegin
    \/ InitializeGameEnd
    \/ LoadSchedule
    \/ \E hour \in DropHours, activityId \in DraggedActivities :
          HandleDragEnd(hour, activityId)
    \/ SaveToBackend

SpecEditor == InitEditor /\ [][NextEditor]_vars

----------------------------------------------------------------------------
(* Vocabulary of the properties *)

\* a step of the simulation: the interval callback or advanceTime
TickStep == Tick \/ AdvanceTime

\* a direct stat change: an event option, or a room item clicked
DirectStep == ApplyStatChanges \/ ApplyStatChangesMock \/ ItemClick

\* a step that reinitializes the session to its defaults
ResetStep == ResetGame \/ ResetGameMock \/ InitializeGameMockNoUser

BoundedStats == {"hunger", "stress", "tone", "health"}

\* (day, hour) read lexicographically
TimeLeq(t1, t2) ==
    t1.day < t2.day \/ (t1.day = t2.day /\ t1.hour <= t2.hour)

\* the game-over policy of section 4.4: "none" or the trigger that fires first
Policy(s) ==
    IF s.health <= 0 THEN "health"
    ELSE IF s.hunger <= 0 THEN "starvation"
    ELSE IF s.stress >= 100 THEN "burnout"
    ELSE "none"

\* the trigger a reported reason names
ReasonKind(reason) ==
    IF reason = HealthReason THEN "health"
    ELSE IF reason = StarvedReason THEN "starvation"
    ELSE IF reason = BurnoutReason THEN "burnout"
    ELSE "none"

Triggers(s) ==
    (IF s.health <= 0 THEN {"health"} ELSE {})
    \cup (IF s.hunger <= 0 THEN {"starvation"} ELSE {})
    \cup (IF s.stress >= 100 THEN {"burnout"} ELSE {})

----------------------------------------------------------------------------
(* C1: hunger, stress, tone and health are within [0,100] in every         *)
(* reachable state, for any sequence of ticks and direct stat changes.     *)
C1_BoundedStatsInRange ==
    \A k \in BoundedStats : stats[k] >= 0 /\ stats[k] <= 100

\* a working day has driven hunger below and stress above the range, and
\* both were clamped
C1_Witness ==
    /\ stats.hunger = 0
    /\ stats.stress = 100
    /\ dailySchedule = workSchedule
    /\ gameTime.hour >= 16

(* C2: money is floored at 0: money >= 0 in every reachable state.          *)
C2_MoneyFloored == stats.money >= 0

(* C3: once the session is in GameOver, a simulation step is a no-op:       *)
(* stats, gameTime, isGameOver and gameOverReason are unchanged.            *)
C3_StepAfterGameOverIsNoOp ==
    [][(isGameOver /\ TickStep) =>
          UNCHANGED <<stats, gameTime, isGameOver, gameOverReason>>]_vars

(* C4: once game over has been triggered, no direct stat change mutates     *)
(* the stats until resetGame.                                               *)
C4_NoDirectChangeAfterGameOver ==
    [][(isGameOver /\ DirectStep) => stats' = stats]_vars

(* C5: once isGameOver is true it stays true with the same reason after     *)
(* any later operation other than a reset.                                  *)
C5_GameOverIsSticky ==
    [][(isGameOver /\ ~ResetStep) =>
          (isGameOver' /\ gameOverReason' = gameOverReason)]_vars

(* C6: after every stat mutation in a running session, game over is         *)
(* declared exactly when health <= 0, hunger <= 0 or stress >= 100 holds    *)
(* on the new stats.                                                        *)
C6_GameOverIffPolicy ==
    [][(~isGameOver /\ (TickStep \/ DirectStep)) =>
          (isGameOver' <=> Policy(stats') # "none")]_vars

(* C7: when more than one trigger holds on the new stats, the reported      *)
(* reason follows the priority health, then hunger, then stress.            *)
C7_ReasonFollowsPriority ==
    [][(~isGameOver /\ (TickStep \/ DirectStep)
          /\ Cardinality(Triggers(stats')) > 1) =>
          ReasonKind(gameOverReason') = Policy(stats')]_vars

(* C8: each tick advances game time by exactly one hour, (day, hour+1)      *)
(* when hour < 23 and (day+1, 0) when hour = 23; hour stays in 0..23 and    *)
(* day >= 1.                                                                *)
C8_TickAdvancesOneHour ==
    /\ [][TickStep =>
            gameTime' = IF gameTime.hour < 23
                        THEN [day |-> gameTime.day, hour |-> gameTime.hour + 1]
                        ELSE [day |-> gameTime.day + 1, hour |-> 0]]_vars
    /\ [](gameTime.hour \in 0..23 /\ gameTime.day >= 1)

\* the clock has wrapped from hour 23 of day 1 into day 2
C8_Witness == gameTime = [day |-> 2, hour |-> 0]

(* C9: game time never decreases between two resets: no operation other     *)
(* than a reset replaces (day, hour) with a lexicographically earlier one.  *)
C9_TimeMonotonic ==
    [][~ResetStep => TimeLeq(gameTime, gameTime')]_vars

(* C10: a tick applies the effect of the activity scheduled for the hour    *)
(* being entered, a null slot counting as idle; from the initial stats with *)
(* schedule[1] = "work" the step from hour 0 yields hunger 65, stress 25,   *)
(* tone 75, health 90, money 60 and no game over.                           *)
C10_TickAppliesNextHourActivity ==
    [][TickStep =>
        LET hour == (gameTime.hour + 1) % 24
            slot == dailySchedule[hour]
            effect == activityEffectsMock[IF slot = "null" THEN "idle" ELSE slot]
            money == stats.money + Eff(effect, "money")
        IN /\ \A k \in BoundedStats :
                 stats'[k] = Max(0, Min(100, stats[k] + Eff(effect, k)))
           /\ stats'.money = money \/ (money < 0 /\ stats'.money = 0)
           /\ (stats = initialStats /\ gameTime.hour = 0 /\ slot = "work") =>
                 /\ stats' = [hunger |-> 65, stress |-> 25, tone |-> 75,
                              health |-> 90, money |-> 60]
                 /\ ~isGameOver']_vars

\* Scenario A has been played
C10_Witness ==
    /\ gameTime = [day |-> 1, hour |-> 1]
    /\ dailySchedule[1] = "work"
    /\ stats = [hunger |-> 65, stress |-> 25, tone |-> 75, health |-> 90,
                money |-> 60]

\* the canonical effect table of section 4.2
canonicalEffects ==
    [work         |-> [hunger |-> -5, stress |-> 5, tone |-> -5, health |-> 0, money |-> 10],
     sleep        |-> [hunger |-> 0, stress |-> -8, tone |-> 10, health |-> 2, money |-> 0],
     eat_fast     |-> [hunger |-> 50, stress |-> -2, tone |-> -2, health |-> -10, money |-> -5],
     eat_healthy  |-> [hunger |-> 30, stress |-> -1, tone |-> 0, health |-> 5, money |-> -15],
     tv           |-> [hunger |-> -1, stress |-> -10, tone |-> -5, health |-> 0, money |-> 0],
     games        |-> [hunger |-> -1, stress |-> -15, tone |-> -10, health |-> -5, money |-> 0],
     read         |-> [hunger |-> -1, stress |-> -8, tone |-> -5, health |-> 2, money |-> 0],
     water_flower |-> [hunger |-> 0, stress |-> -5, tone |-> 0, health |-> 1, money |-> 0],
     exercise     |-> [hunger |-> -2, stress |-> -5, tone |-> 5, health |-> 3, money |-> 0],
     meditate     |-> [hunger |-> 0, stress |-> -10, tone |-> 2, health |-> 1, money |-> 0],
     idle         |-> [hunger |-> -2, stress |-> 1, tone |-> -1, health |-> 0, money |-> 0]]

\* step 4 of section 4.3 with the canonical delta
canonicalResult(s, activityId) ==
    [k \in StatNames |->
        IF k = "money"
        THEN Max(0, s[k] + canonicalEffects[activityId][k])
        ELSE Max(0, Min(100, s[k] + canonicalEffects[activityId][k]))]

(* C11: for each of the eleven canonical activities and every stat vector, *)
(* applyActivityEffects yields the clamped/floored sum with the canonical  *)
(* delta; water_flower is a known activity (stress -5, health +1).         *)
C11_TableIsCanonical ==
    [][\A activityId \in ActivityIds :
          ApplyActivity(activityId) =>
              stats' = canonicalResult(stats, activityId)]_vars

\* the effect table of the running store
Table == IF store = "frontend" THEN activityEffects ELSE activityEffectsMock

\* the slot of the hour a tick enters, "null" when the array has no such index
EnteredSlot ==
    LET hour == (gameTime.hour + 1) % 24
    IN IF hour \in DOMAIN dailySchedule THEN dailySchedule[hour] ELSE "null"

(* C12: when the slot of the hour being entered holds an activity id that  *)
(* is absent from the effect table, the tick changes no stat, reports a    *)
(* warning, advances game time by one hour and the simulation keeps        *)
(* running: no game over, the loop still armed.                            *)
C12_UnknownActivityIsNoOp ==
    [][(TickStep /\ EnteredSlot \notin {"null", "", MalformedSlot}
                 /\ EnteredSlot \notin DOMAIN Table) =>
          /\ stats' = stats
          /\ warnings' >= 1
          /\ gameTime' = IF gameTime.hour = 23
                         THEN [day |-> gameTime.day + 1, hour |-> 0]
                         ELSE [day |-> gameTime.day, hour |-> gameTime.hour + 1]
          /\ isGameOver' = isGameOver
          /\ isGameRunning' = isGameRunning
          /\ timers' = timers]_vars

\* the first tick has entered hour 1, whose slot holds the unknown id
C12_Witness ==
    /\ dailySchedule = unknownSchedule
    /\ gameTime = [day |-> 1, hour |-> 1]
    /\ warnings = 1
    /\ stats = initialStats

(* C13: the daily schedule is a sequence of exactly 24 slots in every      *)
(* reachable state, whatever the sequence of loads, saves, assignments     *)
(* and resets.                                                             *)
C13_ScheduleHas24Slots == DOMAIN dailySchedule = Hours

\* an array of 24 slot objects
WellFormed(schedule) ==
    /\ DOMAIN schedule = Hours
    /\ \A h \in Hours : schedule[h] # MalformedSlot

(* C14: a persisted schedule of the wrong length or with a malformed slot  *)
(* is discarded on load, from localStorage or from the backend: the        *)
(* schedule the store holds is never one of them.                          *)
C14_MalformedScheduleDiscarded == WellFormed(dailySchedule)

(* C15: from any reachable state resetGame reinitializes the session to    *)
(* the defaults: stats (70, 20, 80, 90, 50), gameTime (day 1, hour 0), 24  *)
(* idle slots (a null slot counts as idle), isGameOver false, no reason.   *)
C15_ResetRestoresDefaults ==
    [][(ResetGame \/ ResetGameMock) =>
          /\ stats' = [hunger |-> 70, stress |-> 20, tone |-> 80,
                       health |-> 90, money |-> 50]
          /\ gameTime' = [day |-> 1, hour |-> 0]
          /\ DOMAIN dailySchedule' = Hours
          /\ \A h \in Hours : dailySchedule'[h] \in {"idle", "null"}
          /\ ~isGameOver'
          /\ gameOverReason' \in {"null", ""}]_vars

\* a session whose schedule had been assigned has been reset: the store and
\* localStorage hold the default schedule again
C15_Witness ==
    /\ assigned = 1
    /\ gameTime = initialGameTime
    /\ stats = initialStats
    /\ \A h \in Hours : dailySchedule[h] \in {"idle", "null"}
    /\ ~isGameOver
    /\ IsSome(ls.gameTime) /\ IsSome(ls.schedule)
    /\ \A h \in Hours : Val(ls.schedule)[h] \in {"idle", "null"}

(* C16: after pauseGameLoop or resetGame has returned, no tick mutates     *)
(* stats or gameTime until the player starts the loop again, also when     *)
(* the call races with an initializeGame suspended at its await.           *)
C16_NoTickAfterPauseOrReset ==
    [][(halted /\ Tick) => UNCHANGED <<stats, gameTime>>]_vars

(* C17: an activity X dropped on hour slot H in the schedule editor is     *)
(* applied to the DailySchedule the simulation reads, with or without a    *)
(* running loop: afterwards slot H holds X and every other slot is         *)
(* unchanged, so that the tick entering hour H applies X's effect.         *)
C17_AssignmentReachesSimulation ==
    [][\A hour \in DropHours, activityId \in DraggedActivities :
          HandleDragEnd(hour, activityId) =>
              dailySchedule' = [dailySchedule EXCEPT ![hour] = activityId]]_vars

(* C18: applyStatChanges does not advance time: gameTime and the schedule  *)
(* are unchanged by the call, and the game-over policy is re-evaluated on  *)
(* the resulting stats.                                                    *)
C18_StatChangesKeepTime ==
    [][(ApplyStatChanges \/ ApplyStatChangesMock) =>
          /\ gameTime' = gameTime
          /\ dailySchedule' = dailySchedule
          /\ currentActivityId' = currentActivityId
          /\ ~isGameOver => (isGameOver' <=> Policy(stats') # "none")]_vars

(* C19: a persistence failure never crashes or rolls back the simulation:  *)
(* when a localStorage write throws or a backend update fails during a     *)
(* tick, a direct stat change, a game-over transition or a reset, no       *)
(* exception escapes the operation and the state transition that           *)
(* triggered the write is committed.                                       *)
C19_PersistenceFailureKeepsTransition ==
    [][/\ ~thrown'
       /\ Tick =>
             LET next == nextGameTime(gameTime)
                 act == nextActivityId(dailySchedule, next.hour)
             IN /\ gameTime' = next
                /\ act \in DOMAIN activityEffects =>
                      /\ stats' = activityStats(stats, activityEffects[act])
                      /\ stats'.stress >= 100 => isGameOver'
       /\ ApplyStatChanges =>
             \E changes \in DirectChanges :
                /\ stats' = changedStats(stats, changes)
                /\ stats'.stress >= 100 => isGameOver'
       /\ ApplyStatChangesMock =>
             \E changes \in DirectChanges :
                stats' = changedStatsMock(stats, changes)
       /\ AdvanceTime => gameTime' = nextGameTime(gameTime)
       /\ (ResetGame \/ ResetGameMock) =>
             /\ stats' = initialStats
             /\ gameTime' = initialGameTime
             /\ ~isGameOver']_vars

\* the session state is well formed: the bounded stats are in range, the
\* clock is a real hour of a real day, the schedule has its 24 slots
ValidSession ==
    /\ \A k \in {"hunger", "stress", "tone", "health"} : stats[k] \in 0..100
    /\ gameTime.day >= 1 /\ gameTime.hour \in Hours
    /\ DOMAIN dailySchedule = Hours

\* the load has nothing to give: localStorage is unreadable or empty, and the
\* user has no profiles row or a row without game data
NothingStored ==
    /\ ~CanRead \/ ls = emptyStorage
    /\ db \in {None, Some(freshRow)}

(* C20: when the persistence load returns no data or fails (backend error, *)
(* missing row, unreadable localStorage), initializeGame completes: it     *)
(* throws nothing, clears isLoading, leaves a valid session state, which   *)
(* is the default state where nothing was stored, and the frontend loop    *)
(* is armed so that the simulation runs afterwards.                        *)
C20_InitializeGameCompletes ==
    [][/\ (InitializeGameEnd \/ InitializeGameNoUser) =>
             /\ ~thrown' /\ ~isLoading'
             /\ isGameRunning' /\ intervalId' \in timers'
             /\ ValidSession'
             /\ NothingStored => UNCHANGED <<stats, gameTime, dailySchedule>>
       /\ InitializeGameMock =>
             /\ ~thrown' /\ ~isLoading'
             /\ ValidSession'
             /\ NothingStored =>
                   /\ stats' = initialStats
                   /\ gameTime' = initialGameTime
                   /\ dailySchedule' = initialScheduleMock]_vars

\* a signed-in session without a profiles row and with unreadable
\* localStorage has finished initializing, and a tick has entered hour 1
\* with the default stats changed by the idle hour
C20_Witness ==
    /\ store = "frontend"
    /\ db = None
    /\ storage = "denied"
    /\ pendingInits = 0
    /\ ~isLoading
    /\ isGameRunning
    /\ gameTime = [day |-> 1, hour |-> 1]
    /\ stats = activityStats(initialStats, activityEffects["idle"])

----------------------------------------------------------------------------
(* Ordering and buying: src/frontend/src/components/FoodOrderModal.tsx and *)
(* the shop page, src/unnamed/part_014.  Both read stats.money from the    *)
(* game store; the modal charges through applyStatChanges, the shop page   *)
(* sends the purchase and the use of an item to the backend.               *)

\* foodItems of the modal
foodItems ==
    [salad |-> [price |-> 15, hunger |-> 25, health |-> 8, stress |-> -2,
                tone |-> 0],
     smoothie |-> [price |-> 12, hunger |-> 30, health |-> 6, stress |-> -3,
                   tone |-> 2],
     grilled_chicken |-> [price |-> 18, hunger |-> 35, health |-> 10,
                          stress |-> -1, tone |-> 1],
     burger |-> [price |-> 8, hunger |-> 55, health |-> -8, stress |-> -5,
                 tone |-> -3],
     pizza |-> [price |-> 6, hunger |-> 45, health |-> -6, stress |-> -4,
                tone |-> -2],
     fries |-> [price |-> 5, hunger |-> 25, health |-> -10, stress |-> -2,
                tone |-> -5]]

FoodIds == DOMAIN foodItems

\* the effects handleOrder builds from an item
foodEffects(item) ==
    [hunger |-> item.hunger, health |-> item.health, stress |-> item.stress,
     tone |-> item.tone, money |-> -item.price]

\* handleOrder that charges without looking at the money
handleOrderUnchecked(w, item, o) ==
    applyStatChanges(w, foodEffects(item), o)

\* handleOrder(item) of the modal, as far as the store is concerned
handleOrder(w, item, o) ==
    IF w.stats.money < item.price
    THEN w
    ELSE applyStatChanges(w, foodEffects(item), o)

\* what handleOrder shows in the status line
orderStatusAfter(money, item) ==
    IF money < item.price THEN "Not enough money!" ELSE "Ordered"

\* prices of in-game items of the shop: one the default money affords, one
\* it does not (the items come from the backend)
ShopPrices == {5, 60}

\* the requests sent after handleInGamePurchase of an in-game item
handleInGamePurchase(requests, money, price) ==
    IF ~loggedIn \/ money < price THEN requests ELSE requests + 1

\* the toast handleInGamePurchase shows; ok: the response is ok
purchaseToast(money, price, ok) ==
    IF ~loggedIn THEN "You must be logged in to make purchases"
    ELSE IF money < price THEN "Not enough coins to purchase this item"
    ELSE IF ok THEN "Successfully purchased" ELSE "Purchase failed"

PageFrame ==
    UNCHANGED <<store, loggedIn, network, storage, halted, pendingInits, direct,
                assigned, editorSchedule, isLoadingSchedule, pendingSaves,
                audioSettings>>

\* everything the store and the browser hold for it
storeVars ==
    <<stats, gameTime, currentActivityId, dailySchedule, isGameRunning,
      isLoading, intervalId, isGameOver, gameOverReason, timers, ls, db,
      backendStamp, warnings, thrown>>

\* "Order Now" of the food modal
FoodOrder(id) ==
    /\ store = "frontend"
    /\ \E o \in Outcomes :
          /\ Commit(handleOrder(World, foodItems[id], o))
          /\ Fails(FailCount(o))
    /\ orderStatus' = orderStatusAfter(stats.money, foodItems[id])
    /\ UNCHANGED <<shopRequests, toast, currentEvent, optionsApplied, closeTimers>>
    /\ PageFrame

\* the 2 s timer of handleOrder clears the status line
OrderStatusTimeout ==
    /\ store = "frontend"
    /\ orderStatus # "null"
    /\ orderStatus' = "null"
    /\ UNCHANGED <<shopRequests, toast, currentEvent, optionsApplied, closeTimers>>
    /\ UNCHANGED <<storeVars, failures>>
    /\ PageFrame

\* a purchase of an in-game item is confirmed (confirmPurchase)
InGamePurchase(price) ==
    /\ store = "frontend"
    /\ shopRequests < MaxShopRequests
    /\ shopRequests' = handleInGamePurchase(shopRequests, stats.money, price)
    /\ \E ok \in BOOLEAN : toast' = purchaseToast(stats.money, price, ok)
    /\ UNCHANGED <<orderStatus, currentEvent, optionsApplied, closeTimers>>
    /\ UNCHANGED <<storeVars, failures>>
    /\ PageFrame

\* effects of inventory items, as the backend reports them in its response
\* (result.effects)
ItemEffects == {[stress |-> -5], [health |-> 10, stress |-> -10, hunger |-> -5]}

\* the toast handleUseItem shows; ok: the response is ok
useToast(ok) ==
    IF ~loggedIn THEN "You must be logged in to use items"
    ELSE IF ok THEN "Item used successfully!" ELSE "Failed to use item"

\* "Use Item" of the inventory tab: the request is sent and the response,
\* with the effects of the item, is read; the game store is not called
HandleUseItem(effects, ok) ==
    /\ store = "frontend"
    /\ shopRequests < MaxShopRequests
    /\ shopRequests' = IF loggedIn THEN shopRequests + 1 ELSE shopRequests
    /\ toast' = useToast(ok)
    /\ UNCHANGED <<orderStatus, currentEvent, optionsApplied, closeTimers>>
    /\ UNCHANGED <<storeVars, failures>>
    /\ PageFrame

\* money near the prices
InitShop ==
    \E m \in MoneySamples :
       /\ InitWith("reliable", [initialStats EXCEPT !.money = m])
       /\ store = "frontend"

\* the player orders and buys
NextShop ==
    \/ \E id \in FoodIds : FoodOrder(id)
    \/ OrderStatusTimeout
    \/ \E price \in ShopPrices : InGamePurchase(price)
    \/ \E effects \in ItemEffects, ok \in BOOLEAN : HandleUseItem(effects, ok)

SpecShop == InitShop /\ [][NextShop]_vars

----------------------------------------------------------------------------
(* The loop under a fair timer: an interval that stays armed fires again   *)
(* and again (setInterval), so the tick is weakly fair.  The fairness is   *)
(* stated on TimerFires, the tick seen through its guard and the clock it  *)
(* commits; TimerFiresIsTick states that its steps are the Tick steps.     *)

InitTicking == Init /\ store = "frontend"

NextTicking ==
    \/ StartGameLoop
    \/ PauseGameLoop
    \/ Tick
    \/ ApplyStatChanges
    \/ ResetGame
    \/ InitializeGameBegin
    \/ InitializeGameEnd

\* the guard of Tick
TickEnabled ==
    /\ store = "frontend"
    /\ timers # {}
    /\ gameTime.day < MaxDay

TimerFires ==
    /\ TickEnabled
    /\ gameTime' = nextGameTime(gameTime)

SpecTicking == InitTicking /\ [][NextTicking]_vars /\ WF_gameTime(TimerFires)

TimerFiresIsTick == [][TimerFires <=> Tick]_vars

----------------------------------------------------------------------------
(* The audio settings, and the operations that leave the game alone *)

\* { ...state.audioSettings, ...settings }
updateAudioSettings(current, settings) ==
    [k \in DOMAIN current \cup DOMAIN settings |->
        IF k \in DOMAIN settings THEN settings[k] ELSE current[k]]

\* what the volume sliders and the mute button of the game page pass
AudioChanges ==
    {[bgmVolume |-> 0], [sfxVolume |-> 100],
     IF store = "frontend" THEN [muted |-> ~audioSettings.muted]
     ELSE [isMuted |-> ~audioSettings.isMuted]}

UpdateAudioSettings ==
    /\ \E settings \in AudioChanges :
          audioSettings' = updateAudioSettings(audioSettings, settings)
    /\ UNCHANGED <<storeVars, failures, pageVars>>
    /\ UNCHANGED <<store, loggedIn, network, storage, halted, pendingInits,
                   direct, assigned, editorSchedule, isLoadingSchedule,
                   pendingSaves>>

\* a session in which the schedule and the settings are changed while the
\* loop is started, paused and ticking
NextSettings ==
    \/ StartGameLoop
    \/ PauseGameLoop
    \/ Tick
    \/ SetSchedule
    \/ StartGame
    \/ PauseGame
    \/ AdvanceTime
    \/ SetScheduleMock
    \/ UpdateAudioSettings

SpecSettings == Init /\ [][NextSettings]_vars

----------------------------------------------------------------------------
(* Random events: EventManager.tsx shows an event, EventPopup applies the  *)
(* option the player clicks and closes 1.5 s later.                        *)

saveMoneyEffects == [stress |-> 5]

\* GAME_EVENTS: the options of an event, each by its effects
eventOptions ==
    [e \in {"power-outage", "food-delivery-discount"} |->
        IF e = "power-outage" THEN {callManagementEffects}
        ELSE {orderFoodEffects, saveMoneyEffects}]

GameEventIds == DOMAIN eventOptions

\* a check of the event interval (or of the hour-change effect) that passes
\* the spacing test and the draw: the event replaces whatever is shown
TriggerRandomEvent(e) ==
    /\ store = "frontend"
    /\ isGameRunning
    /\ currentEvent' = e
    /\ optionsApplied' = 0
    /\ UNCHANGED <<orderStatus, shopRequests, toast, closeTimers>>
    /\ UNCHANGED <<storeVars, failures>>
    /\ PageFrame

\* an option button of the popup is clicked: the buttons stay enabled
\* until the popup is closed
HandleOptionSelect(effects) ==
    /\ store = "frontend"
    /\ currentEvent # "null"
    /\ effects \in eventOptions[currentEvent]
    /\ direct < MaxOptions
    /\ \E o \in Outcomes :
          /\ Commit(applyStatChanges(World, effects, o))
          /\ Fails(FailCount(o))
    /\ optionsApplied' = optionsApplied + 1
    /\ closeTimers' = closeTimers + 1
    /\ direct' = direct + 1
    /\ UNCHANGED <<orderStatus, shopRequests, toast, currentEvent>>
    /\ UNCHANGED <<store, loggedIn, network, storage, halted, pendingInits,
                   assigned, editorSchedule, isLoadingSchedule, pendingSaves,
                   audioSettings>>

\* a 1.5 s timer of handleOptionSelect fires: onClose()
CloseTimerFires ==
    /\ closeTimers > 0
    /\ closeTimers' = closeTimers - 1
    /\ currentEvent' = "null"
    /\ UNCHANGED <<orderStatus, shopRequests, toast, optionsApplied>>
    /\ UNCHANGED <<storeVars, failures>>
    /\ PageFrame

\* the close button of the popup: handleCloseEvent
HandleCloseEvent ==
    /\ currentEvent # "null"
    /\ currentEvent' = "null"
    /\ UNCHANGED <<orderStatus, shopRequests, toast, optionsApplied, closeTimers>>
    /\ UNCHANGED <<storeVars, failures>>
    /\ PageFrame

InitEvents == Init /\ store = "frontend"

NextEvents ==
    \/ StartGameLoop
    \/ PauseGameLoop
    \/ \E e \in GameEventIds : TriggerRandomEvent(e)
    \/ \E effects \in DirectChanges \cup {saveMoneyEffects} :
          HandleOptionSelect(effects)
    \/ CloseTimerFires
    \/ HandleCloseEvent

SpecEvents == InitEvents /\ [][NextEvents]_vars

----------------------------------------------------------------------------
(* Save and load through JSON text.  The record ls holds, for each key of  *)
(* localStorage, the value whose JSON text the key holds; the operators    *)
(* below write that text and read it back as the loaders do.               *)

\* the keys of a stats object and of a game time, in the order the object
\* literals of the store list them (JSON.stringify keeps insertion order)
StatKeys == <<"hunger", "stress", "tone", "health", "money">>
GameTimeKeys == <<"day", "hour">>

\* JSON.stringify of an object with the given keys: its members in order
JSONstringifyObject(keys, obj) ==
    [i \in 1..Len(keys) |-> <<keys[i], obj[keys[i]]>>]

\* JSON.parse of an object text: the object with the members of the text
JSONparseObject(text) ==
    [k \in {text[i][1] : i \in DOMAIN text} |->
        text[CHOOSE i \in DOMAIN text : text[i][1] = k][2]]

\* JSON.stringify of a schedule: an array whose elements are objects with
\* the one member activityId (null included), or whatever else a slot is
JSONstringifySchedule(schedule) ==
    [h \in DOMAIN schedule |->
        IF schedule[h] = MalformedSlot
        THEN <<"string", MalformedSlot>>
        ELSE <<"object", <<"activityId", schedule[h]>>>>]

\* JSON.parse of a schedule text
JSONparseSchedule(text) ==
    [h \in DOMAIN text |->
        IF text[h][1] = "object" THEN text[h][2][2] ELSE MalformedSlot]

\* what saveGameState writes under the three keys (both stores)
savedText(s, t, d) ==
    [stats |-> JSONstringifyObject(StatKeys, s),
     gameTime |-> JSONstringifyObject(GameTimeKeys, t),
     schedule |-> JSONstringifySchedule(d)]

\* the text the three keys of localStorage hold; defined when all are set
storedText(l) ==
    savedText(Val(l.stats), Val(l.gameTime), Val(l.schedule))

\* loadStatsFromLocalStorage of the frontend on a text: the five keys
loadStatsText(text) ==
    LET parsedStats == JSONparseObject(text)
    IN IF \A i \in DOMAIN StatKeys : StatKeys[i] \in DOMAIN parsedStats
       THEN Some(parsedStats) ELSE None

\* loadGameTimeFromLocalStorage of the frontend on a text
loadGameTimeText(text) ==
    LET parsedTime == JSONparseObject(text)
    IN IF "day" \in DOMAIN parsedTime /\ "hour" \in DOMAIN parsedTime
       THEN Some(parsedTime) ELSE None

\* loadScheduleFromLocalStorage of the frontend on a text: an array of 24
\* objects that have an activityId
loadScheduleText(text) ==
    IF DOMAIN text = Hours /\ \A h \in Hours : text[h][1] = "object"
    THEN Some(JSONparseSchedule(text)) ELSE None

OrElse(o, default) == IF IsSome(o) THEN Val(o) ELSE default

\* the state a new store starts with when localStorage holds `text`:
\* load() || default, for the store in use
loadedState(text) ==
    IF store = "frontend"
    THEN [stats |-> OrElse(loadStatsText(text.stats), initialStats),
          gameTime |-> OrElse(loadGameTimeText(text.gameTime), initialGameTime),
          dailySchedule |-> OrElse(loadScheduleText(text.schedule),
                                   initialSchedule)]
    ELSE [stats |-> JSONparseObject(text.stats),
          gameTime |-> JSONparseObject(text.gameTime),
          dailySchedule |-> JSONparseSchedule(text.schedule)]

\* every key of the saved game is set
AllStored(l) == IsSome(l.stats) /\ IsSome(l.gameTime) /\ IsSome(l.schedule)

(* C21: save and load round-trip: loading what saveGameState wrote (at the *)
(* end of a tick) yields the in-memory stats, gameTime and schedule, and   *)
(* loading a fully persisted game and saving it again reproduces the       *)
(* persisted text.                                                         *)
C21_SaveLoadRoundTrip ==
    [][/\ ((Tick \/ AdvanceTime) /\ CanWrite) =>
             loadedState(storedText(ls')) =
                [stats |-> stats', gameTime |-> gameTime',
                 dailySchedule |-> dailySchedule']
       /\ (AllStored(ls') /\ CanRead) =>
             LET loaded == loadedState(storedText(ls'))
             IN savedText(loaded.stats, loaded.gameTime, loaded.dailySchedule)
                   = storedText(ls')]_vars

\* a second session that has just been loaded with the stats s, the
\* schedule d and the game time t and started: the store starts every
\* session with isGameOver false, no reason and the idle activity; its
\* localStorage holds what it loaded, its loop is its first timer
loadedSession(s, d, t) ==
    [World EXCEPT !.stats = s,
                  !.dailySchedule = d,
                  !.gameTime = t,
                  !.currentActivityId = "idle",
                  !.isGameRunning = TRUE,
                  !.isLoading = FALSE,
                  !.intervalId = IF store = "frontend" THEN 1 ELSE 0,
                  !.timers = IF store = "frontend" THEN {1} ELSE {},
                  !.isGameOver = FALSE,
                  !.gameOverReason = IF store = "frontend" THEN "null" ELSE "",
                  !.ls = [stats |-> Some(s), gameTime |-> Some(t),
                          schedule |-> Some(d), timestamp |-> TRUE],
                  !.backendStamp = "older"]

\* what the claim compares after a step
stepResult(w) == <<w.stats, w.gameTime, w.isGameOver>>

(* C22: the simulation step is deterministic: a tick yields the stats,     *)
(* gameTime and game-over state that the same tick yields in a session     *)
(* just loaded with the same stats, schedule and gameTime, whatever the    *)
(* outcome of its backend updates; nothing else influences the step.       *)
C22_StepIsDeterministic ==
    [][/\ Tick =>
             \A o1, o2 \in Outcomes :
                stepResult(tick(loadedSession(stats, dailySchedule, gameTime),
                                o1, o2))
                   = <<stats', gameTime', isGameOver'>>
       /\ AdvanceTime =>
             stepResult(advanceTime(loadedSession(stats, dailySchedule, gameTime)))
                = <<stats', gameTime', isGameOver'>>]_vars

\* the same for the ticks of sessions that are not in game over: these
\* depend on the stats, the schedule and the game time alone
RunningStepIsDeterministic ==
    [][~isGameOver =>
          /\ Tick =>
                \A o1, o2 \in Outcomes :
                   stepResult(tick(loadedSession(stats, dailySchedule, gameTime),
                                   o1, o2))
                      = <<stats', gameTime', isGameOver'>>
          /\ AdvanceTime =>
                stepResult(advanceTime(loadedSession(stats, dailySchedule,
                                                     gameTime)))
                   = <<stats', gameTime', isGameOver'>>]_vars

(* C23: a purchase or food order whose price exceeds the player's money is *)
(* prevented: it is rejected and the stats, money included, stay as they   *)
(* are (no request is sent to the shop), so that an order or purchase      *)
(* never drives money below zero.                                          *)
C23_UnaffordableOrderRejected ==
    [][/\ \A id \in FoodIds :
             FoodOrder(id) =>
                /\ stats.money < foodItems[id].price =>
                      /\ stats' = stats
                      /\ orderStatus' = "Not enough money!"
                /\ stats.money >= 0 => stats'.money >= 0
       /\ \A price \in ShopPrices :
             InGamePurchase(price) =>
                /\ stats' = stats
                /\ stats.money < price =>
                      /\ shopRequests' = shopRequests
                      /\ toast' = "Not enough coins to purchase this item"]_vars

\* the salad (15) has been refused to a player who holds 10, and the shop
\* has refused the item of 60
C23_Witness ==
    /\ orderStatus = "Not enough money!"
    /\ toast = "Not enough coins to purchase this item"
    /\ stats.money = 10
    /\ shopRequests = 0

(* C24: using an item from the inventory applies the item's effects to the *)
(* stats of the game store through the direct stat-change applier: after a *)
(* successful use of an item with a non-zero effect the stats are the ones *)
(* applyStatChanges computes, and at least one stat differs from before.   *)
C24_ItemUseChangesStats ==
    [][\A effects \in ItemEffects :
          HandleUseItem(effects, TRUE) =>
             /\ stats' = changedStats(stats, effects)
             /\ stats' # stats]_vars

(* C29: in the game store, after every completed action, intervalId is    *)
(* non-null if and only if isGameRunning is true.                          *)
C29_IntervalIdIffRunning ==
    store = "frontend" => ((intervalId # 0) <=> isGameRunning)

\* a session paused by the player after some ticks
C29_Witness ==
    /\ store = "frontend"
    /\ ~isGameRunning /\ intervalId = 0
    /\ ~isLoading /\ ~isGameOver
    /\ halted
    /\ pendingInits = 0
    /\ gameTime.hour > 0

C27_GameOverTickCommitsAndHalts ==
    [][(Tick /\ ~isGameOver /\ isGameOver') =>
          LET next == nextGameTime(gameTime)
              act == nextActivityId(dailySchedule, next.hour)
          IN /\ stats' = activityStats(stats, activityEffects[act])
             /\ gameTime' = next
             /\ gameOverReason' # "null"
             /\ intervalId' = 0
             /\ ~isGameRunning'
             /\ timers' = {}]_vars

C27_Witness ==
    /\ store = "frontend"
    /\ isGameOver /\ gameOverReason = BurnoutReason
    /\ direct = 0
    /\ stats.stress = 100
    /\ intervalId = 0 /\ ~isGameRunning /\ timers = {}
    /\ ls.gameTime = Some(gameTime)
    /\ gameTime.hour > 0

(* C26: setSchedule, startGameLoop, pauseGameLoop and updateAudioSettings  *)
(* leave stats, gameTime, isGameOver and gameOverReason unchanged, and a   *)
(* tick leaves the schedule unchanged (it is read, not consumed).          *)
C26_OnlyStepsMutateStatsAndTime ==
    [][/\ (\/ SetSchedule \/ SetScheduleMock
           \/ StartGameLoop \/ StartGame
           \/ PauseGameLoop \/ PauseGame
           \/ UpdateAudioSettings)
          => UNCHANGED <<stats, gameTime, isGameOver, gameOverReason>>
       /\ TickStep => UNCHANGED dailySchedule]_vars

\* the schedule has been replaced, the settings changed and the loop paused
\* in the middle of a day, and the work slots of the schedule are still there
C26_Witness ==
    /\ assigned = 1
    /\ dailySchedule # initialSchedule /\ dailySchedule # initialScheduleMock
    /\ audioSettings \notin {initialAudioSettings, initialAudioSettingsMock}
    /\ ~isGameRunning
    /\ gameTime.hour > 1
    /\ stats # initialStats

\* the game times from which a tick is still within the days explored
ProgressTimes == [day : 1..(MaxDay - 1), hour : Hours]

\* t1 is later than t2
laterThan(t1, t2) ==
    t1.day > t2.day \/ (t1.day = t2.day /\ t1.hour > t2.hour)

(* C25: game time progresses: once initializeGame has completed for a     *)
(* logged-in user, under fair firing of the interval timer every state of  *)
(* the running session is followed by a state with a later game time,      *)
(* unless the session is paused or reaches game over first.                *)
C25_GameTimeProgresses ==
    \A t \in ProgressTimes :
       (/\ loggedIn /\ ~isLoading /\ pendingInits = 0
        /\ isGameRunning /\ ~isGameOver
        /\ gameTime = t)
       ~> (laterThan(gameTime, t) \/ ~isGameRunning \/ isGameOver)

\* an initialized session has ticked through the afternoon of the first day
C25_Witness ==
    /\ store = "frontend" /\ loggedIn
    /\ ~isLoading /\ pendingInits = 0
    /\ isGameRunning /\ ~isGameOver
    /\ halted = FALSE
    /\ gameTime = [day |-> 1, hour |-> 15]

(* C30: each occurrence of a random event changes the stats at most once:  *)
(* between the event being shown and the popup closing, the 1.5 s delay    *)
(* after a choice included, the effects of at most one option are applied. *)
C30_AtMostOneOptionPerEvent ==
    optionsApplied <= 1

====
